---- MODULE Spec2Model ----
(***************************************************************************)
(* Model of the traceroute plugin (src/plugin.go): the TraceroutePlugin    *)
(* struct, Execute / executeWithIteration / performTraceroute, and the     *)
(* text parsing of the probe's output into hop records.                    *)
(*                                                                         *)
(* Go strings that the code parses (the probe's stdout, its lines and      *)
(* tokens, resolved names) are sequences of one-character strings, so that *)
(* strings.Split, strings.Fields, strconv.Atoi, strings.TrimSuffix and     *)
(* strconv.ParseFloat are computed character by character.  Strings the    *)
(* code only copies (the host parameter, error texts, status words) are    *)
(* TLA+ strings.                                                           *)
(*                                                                         *)
(* float64 values are fixed-point integers: a maxHops parameter is held in *)
(* tenths, a round-trip time in thousandths.                               *)
(***************************************************************************)
EXTENDS Integers, Sequences, FiniteSets, TLC

VARIABLES
    Results,         \* p.Results: the stored history maps (historyCopy values)
    IterationCount,  \* p.IterationCount
    StartTime,       \* p.StartTime
    clock,           \* time.Now(), in whole seconds
    arrays,          \* heap: backing arrays of []map[string]interface{} slices
    hopObjs,         \* heap: the hop maps the array slots point to
    ret,             \* what the last Execute returned to its caller
    call,            \* the last Execute call: its inputs and what it did
    hist             \* bookkeeping over the run: calls made, entries as captured

vars == <<Results, IterationCount, StartTime, clock, arrays, hopObjs, ret, call, hist>>

-----------------------------------------------------------------------------
(* Bounds of the model *)

\* Execute calls per plugin instance
MaxCalls == 3
\* caller-side mutations of a returned result per plugin instance
MaxMutations == 1
\* lines after the header line in the probe outputs of ParseSpec
MaxLines == 2

-----------------------------------------------------------------------------
(* Strings as character sequences *)

Digits == {"0", "1", "2", "3", "4", "5", "6", "7", "8", "9"}

DigitVal(c) ==
    CASE c = "0" -> 0 [] c = "1" -> 1 [] c = "2" -> 2 [] c = "3" -> 3
      [] c = "4" -> 4 [] c = "5" -> 5 [] c = "6" -> 6 [] c = "7" -> 7
      [] c = "8" -> 8 [] c = "9" -> 9

\* unicode.IsSpace, over the characters a line can hold
IsSpace(c) == c \in {" ", "\t", "\r"}

Star == <<"*">>
NewLine == "\n"

\* index of the first occurrence of character c in s, 0 when there is none
RECURSIVE IndexFrom(_, _, _)
IndexFrom(s, c, i) ==
    IF i > Len(s) THEN 0
    ELSE IF s[i] = c THEN i
    ELSE IndexFrom(s, c, i + 1)

\* strings.Split(s, "\n"): always at least one element
RECURSIVE Split(_, _)
Split(s, c) ==
    LET i == IndexFrom(s, c, 1) IN
    IF i = 0 THEN <<s>>
    ELSE <<SubSeq(s, 1, i - 1)>> \o Split(SubSeq(s, i + 1, Len(s)), c)

\* length of the longest prefix of s without white space
RECURSIVE WordLen(_)
WordLen(s) ==
    IF s = <<>> \/ IsSpace(Head(s)) THEN 0 ELSE 1 + WordLen(Tail(s))

\* strings.Fields(s): the maximal runs of non-space characters
RECURSIVE Fields(_)
Fields(s) ==
    IF s = <<>> THEN <<>>
    ELSE IF IsSpace(Head(s)) THEN Fields(Tail(s))
    ELSE LET n == WordLen(s) IN
         <<SubSeq(s, 1, n)>> \o Fields(SubSeq(s, n + 1, Len(s)))

HasSuffix(s, suf) ==
    /\ Len(s) >= Len(suf)
    /\ SubSeq(s, Len(s) - Len(suf) + 1, Len(s)) = suf

\* strings.TrimSuffix(s, suf): s without one trailing suf
TrimSuffix(s, suf) ==
    IF HasSuffix(s, suf) THEN SubSeq(s, 1, Len(s) - Len(suf)) ELSE s

AllDigits(s) == \A i \in 1..Len(s) : s[i] \in Digits

\* value of a digit string in base 10
RECURSIVE DecVal(_)
DecVal(s) ==
    IF s = <<>> THEN 0
    ELSE 10 * DecVal(SubSeq(s, 1, Len(s) - 1)) + DigitVal(s[Len(s)])

\* strconv.Atoi(s): an optional sign, then one or more digits
Atoi(s) ==
    LET signed == s # <<>> /\ s[1] \in {"+", "-"}
        body   == IF signed THEN Tail(s) ELSE s
    IN  IF body = <<>> \/ ~AllDigits(body)
        THEN [ok |-> FALSE, val |-> 0]
        ELSE [ok |-> TRUE,
              val |-> IF signed /\ s[1] = "-" THEN 0 - DecVal(body) ELSE DecVal(body)]

\* the first three fractional digits of a digit string, as thousandths
FracThousandths(f) ==
    LET d(i) == IF i <= Len(f) THEN DigitVal(f[i]) ELSE 0
    IN  100 * d(1) + 10 * d(2) + d(3)

\* strconv.ParseFloat(s, 64) on decimal notation: an optional sign, digits
\* with at most one point, at least one digit.  The value is in thousandths.
\* On a syntax error Go returns 0 and an error.  The texts of this model hold
\* no exponent, hexadecimal, "inf" or "nan" forms and at most three
\* fractional digits.
ParseFloat(s) ==
    LET signed == s # <<>> /\ s[1] \in {"+", "-"}
        body   == IF signed THEN Tail(s) ELSE s
        dot    == IndexFrom(body, ".", 1)
        ip     == IF dot = 0 THEN body ELSE SubSeq(body, 1, dot - 1)
        fp     == IF dot = 0 THEN <<>> ELSE SubSeq(body, dot + 1, Len(body))
        good   == /\ AllDigits(ip) /\ AllDigits(fp)
                  /\ Len(ip) + Len(fp) > 0
        mag    == 1000 * DecVal(ip) + FracThousandths(fp)
    IN  IF ~good THEN [ok |-> FALSE, val |-> 0]
        ELSE [ok |-> TRUE,
              val |-> IF signed /\ s[1] = "-" THEN 0 - mag ELSE mag]

-----------------------------------------------------------------------------
(* performTraceroute: the parsing of the probe's output *)

\* net.LookupAddr outcomes: an error, no names, or a list of names
LookupOutcomes ==
    { [err |-> TRUE,  names |-> <<>>],
      [err |-> FALSE, names |-> <<>>],
      [err |-> FALSE, names |-> << <<"g", "w", ".">> >>] }

\* net.LookupAddr(ip) under this call's resolver; an unknown address fails
LookupAddr(resolver, ip) ==
    IF ip \in DOMAIN resolver THEN resolver[ip] ELSE [err |-> TRUE, names |-> <<>>]

\* the hostname of a responding hop
HopName(hopIP, lookup) ==
    IF ~lookup.err /\ Len(lookup.names) > 0
    THEN TrimSuffix(lookup.names[1], <<".">>)
    ELSE hopIP

\* the "status" closure of the hop map (variant: tests for the empty string)
HopStatusMutant(hopIP) == IF hopIP # <<>> THEN "OK" ELSE "NO RESPONSE"
HopStatus(hopIP) == IF hopIP # Star THEN "OK" ELSE "NO RESPONSE"

\* which lines take the responding-hop branch
Responding(parts) == Len(parts) >= 4 /\ parts[2] # Star

\* the round-trip time of a responding hop; 0 when ParseFloat fails
\* (variant: the unit suffix not stripped)
RttOfMutant(parts) == ParseFloat(parts[3]).val
RttOf(parts) == ParseFloat(TrimSuffix(parts[3], <<"m", "s">>)).val

\* the hop map built from a line's fields and its hop number
HopRecord(parts, hopNumber, resolver) ==
    LET resp   == Responding(parts)
        hopIP  == IF resp THEN parts[2] ELSE Star
        hopNm  == IF resp THEN HopName(hopIP, LookupAddr(resolver, hopIP)) ELSE Star
        rtt    == IF resp THEN RttOf(parts) ELSE 0
    IN  [hop |-> hopNumber, host |-> hopIP, name |-> hopNm, rtt |-> rtt,
         status |-> HopStatus(hopIP)]

\* the loop's continue conditions: TRUE when line i (0-based), with fields
\* parts, yields no hop (variant: the header line not skipped)
SkipLineMutant(i, line, parts) ==
    \/ Len(line) = 0
    \/ Len(parts) < 2
    \/ ~Atoi(parts[1]).ok
SkipLine(i, line, parts) ==
    \/ i = 0
    \/ Len(line) = 0
    \/ Len(parts) < 2
    \/ ~Atoi(parts[1]).ok

\* the loop over lines[from..]: each hop with the 0-based index of its line
RECURSIVE ParseFrom(_, _, _)
ParseFrom(lines, from, resolver) ==
    IF from > Len(lines) THEN <<>>
    ELSE LET line  == lines[from]
             i     == from - 1
             parts == Fields(line)
             this  == IF SkipLine(i, line, parts) THEN <<>>
                      ELSE << [line |-> i,
                               rec  |-> HopRecord(parts, Atoi(parts[1]).val, resolver)] >>
         IN  this \o ParseFrom(lines, from + 1, resolver)

\* lines := strings.Split(output, "\n"), split once, then the loop
ParseOutput(output, resolver) ==
    CHOOSE hops \in { ParseFrom(lines, 1, resolver) :
                         lines \in {Split(output, NewLine)} } : TRUE

-----------------------------------------------------------------------------
(* The parameter bag and the collaborators' answers *)

\* a value of map[string]interface{}: its dynamic type and its payload
Absent     == [t |-> "absent",  s |-> "", f |-> 0, b |-> FALSE]
StringV(x) == [t |-> "string",  s |-> x,  f |-> 0, b |-> FALSE]
FloatV(x)  == [t |-> "float64", s |-> "", f |-> x, b |-> FALSE]
BoolV(x)   == [t |-> "bool",    s |-> "", f |-> 0, b |-> x]

\* v, ok := x.(string) / x.(float64) / x.(bool): the zero value when not ok
AsString(x) == [ok |-> x.t = "string",  v |-> IF x.t = "string" THEN x.s ELSE ""]
AsFloat(x)  == [ok |-> x.t = "float64", v |-> IF x.t = "float64" THEN x.f ELSE 0]
AsBool(x)   == [ok |-> x.t = "bool",    v |-> IF x.t = "bool" THEN x.b ELSE FALSE]

\* int(f) for a float64 held in tenths: truncation toward zero
TruncToInt(f) == IF f >= 0 THEN f \div 10 ELSE 0 - ((0 - f) \div 10)

DefaultMaxHops == 30

\* the hop ceiling handed to the probe ("-m")
MaxHopsArg(params) ==
    LET a == AsFloat(params.maxHops) IN
    TruncToInt(IF a.ok THEN a.v ELSE DefaultMaxHops * 10)

\* the tokens of the probe's text
tHdr   == <<"h", "d", "r">>
tOne   == <<"1">>
tTwo   == <<"2">>
tZero  == <<"0">>
tNeg   == <<"-", "1">>
tWord  == <<"x">>
tAddr  == <<"a">>
tRtt   == <<"1", ".", "5">>
tRttMs == <<"7", "m", "s">>
tMs    == <<"m", "s">>

Addrs == {tAddr}
Resolvers == [Addrs -> LookupOutcomes]

RECURSIVE Join(_, _)
Join(ts, sep) ==
    IF ts = <<>> THEN <<>>
    ELSE IF Len(ts) = 1 THEN ts[1]
    ELSE ts[1] \o sep \o Join(Tail(ts), sep)

\* a line as traceroute prints it: indented, fields two spaces apart
Render(ts) == IF ts = <<>> THEN <<>> ELSE <<" ">> \o Join(ts, <<" ", " ">>)

TextOf(lines) == Join(lines, <<NewLine>>)

lineHdr     == tHdr
lineTimeout == Render(<<tOne, Star>>)
lineHop     == Render(<<tTwo, tAddr, tRtt, tMs>>)

\* what the probe prints in Spec: a header, a hop that timed out, a hop
\* that answered
ProbeOutputs == { TextOf(<<lineHdr, lineTimeout, lineHop, <<>> >>) }

\* the probe's answer: whether cmd.Run() failed, its stderr, its stdout
ProbeAnswers ==
    { [fail |-> FALSE, stderr |-> "", stdout |-> o] : o \in ProbeOutputs }
    \cup { [fail |-> TRUE, stderr |-> "unreachable", stdout |-> <<>>],
           [fail |-> TRUE, stderr |-> "",            stdout |-> <<>>] }

\* the parameter bags of Spec
ParamBags ==
    [ host              : {StringV(""), StringV("h1"), StringV("h2")},
      maxHops           : {Absent},
      continueToIterate : {BoolV(TRUE), BoolV(FALSE)} ]

\* the resolver of Spec: every address has a name
NamedResolver == [a \in Addrs |-> [err |-> FALSE, names |-> << <<"g", "w", ".">> >>]]

\* the parameter bags and probe answers of ParamSpec
AllParamBags ==
    [ host              : {Absent, StringV(""), StringV("h1"), FloatV(10)},
      maxHops           : {Absent, FloatV(0), FloatV(0 - 10), FloatV(25), FloatV(50),
                           StringV("5")},
      continueToIterate : {Absent, BoolV(TRUE), BoolV(FALSE), StringV("true")} ]

AllProbeAnswers ==
    { [fail |-> f, stderr |-> e, stdout |-> o] :
        f \in BOOLEAN, e \in {"", "unreachable"}, o \in ProbeOutputs \cup {<<>>} }

-----------------------------------------------------------------------------
(* performTraceroute *)

\* the test of the host parameter (variant: the test left out)
HostMissingMutant(host) == FALSE
HostMissing(host) == host = ""

\* performTraceroute up to the allocation of its maps: the error it returns
\* ("" for nil), whether and how it ran the probe, the hops parsed
performTraceroute(params, probe, resolver, now) ==
    LET host    == AsString(params.host).v
        maxHops == MaxHopsArg(params)
        parsed  == ParseOutput(probe.stdout, resolver)
        none    == [probed |-> FALSE, arg |-> 0, parsed |-> <<>>,
                    host |-> host, timestamp |-> now, rawOutput |-> <<>>]
    IN  IF HostMissing(host)
        THEN [none EXCEPT !.probed = FALSE] @@ [err |-> "host parameter is required"]
        ELSE IF probe.fail /\ probe.stderr # ""
        THEN [none EXCEPT !.probed = TRUE, !.arg = maxHops]
                 @@ [err |-> "traceroute failed"]
        ELSE [probed |-> TRUE, arg |-> maxHops, parsed |-> parsed,
              host |-> host, timestamp |-> now, rawOutput |-> probe.stdout,
              err  |-> ""]

-----------------------------------------------------------------------------
(* The heap, and executeWithIteration *)

\* the hop maps a slice value [arr, len] reaches, in order
HopsOf(slice, arrs, objs) ==
    [i \in 1..slice.len |-> objs[arrs[slice.arr][i]]]

\* lastHopIP of a hops slice: the "ip" key, else the "host" key, of its last map
LastHopIP(slice, arrs, objs) ==
    IF slice.len = 0 THEN <<>>
    ELSE LET m == objs[arrs[slice.arr][slice.len]] IN
         IF "ip" \in DOMAIN m THEN m.ip ELSE m.host

\* one condensed history entry, for the stored map at index i (1-based)
HistoryEntry(i, resMap, arrs, objs) ==
    [iteration |-> i,
     timestamp |-> resMap.timestamp,
     host      |-> resMap.host,
     hopCount  |-> resMap.hops.len,
     lastHop   |-> LastHopIP(resMap.hops, arrs, objs)]

\* the "history" list built from p.Results
HistorySummary(results, arrs, objs) ==
    [i \in 1..Len(results) |-> HistoryEntry(i, results[i], arrs, objs)]

\* whether the "history" key is added (variant: from the first run on)
AddsHistoryMutant(results) == Len(results) > 0
AddsHistory(results) == Len(results) > 1

\* historyCopy: the key/value pairs of resultMap, copied one level deep
HistoryCopy(resultMap) == resultMap

\* p.Results = append(p.Results, historyCopy)
\* (variant: the history overwritten instead of appended to)
StoreHistoryMutant(results, resultMap) == <<HistoryCopy(resultMap)>>
StoreHistory(results, resultMap) == Append(results, HistoryCopy(resultMap))

\* a stored map with its hops slice followed through the heap
Deep(resMap, arrs, objs) ==
    [resMap EXCEPT !.hops = HopsOf(resMap.hops, arrs, objs)]

NoValue == [nil |-> TRUE]

-----------------------------------------------------------------------------
(* The state machine *)

NoCall ==
    [params |-> [host |-> Absent, maxHops |-> Absent, continueToIterate |-> Absent],
     probed |-> FALSE, arg |-> 0, fail |-> FALSE, stderr |-> "", lines |-> <<>>]

\* NewPlugin()
Init ==
    /\ Results = <<>>
    /\ IterationCount = 0
    /\ StartTime = 0
    /\ clock = 0
    /\ arrays = <<>>
    /\ hopObjs = <<>>
    /\ ret = [kind |-> "none", err |-> "", val |-> NoValue]
    /\ call = NoCall
    /\ hist = [calls |-> 0, iterOk |-> 0, muts |-> 0, captured |-> <<>>, op |-> "new"]

\* the bookkeeping of one Execute call: calls made, iteration-mode calls that
\* returned a result, and each history entry as it was when captured
Counted(h, params, returned, snapshot) ==
    [h EXCEPT !.calls  = @ + 1,
              !.op     = "exec",
              !.iterOk = IF returned.kind = "ok" /\ AsBool(params.continueToIterate).v
                         THEN @ + 1 ELSE @,
              !.captured = @ \o snapshot]

\* the metadata executeWithIteration adds to resultMap after the copy is stored
Annotate(resultMap, count, elapsed, results, arrs, objs) ==
    LET withMeta ==
            [iterationCount |-> count,
             elapsedTime    |-> elapsed,
             iteration_data |->
                 [can_iterate |-> TRUE, supports_iteration |-> TRUE,
                  iteration_summary |->
                      [iteration |-> count, host |-> resultMap.host,
                       hopCount  |-> resultMap.hops.len,
                       final     |-> LastHopIP(resultMap.hops, arrs, objs)]]]
            @@ resultMap
    IN  IF AddsHistory(results)
        THEN [history |-> HistorySummary(results, arrs, objs)] @@ withMeta
        ELSE withMeta

\* whether Execute takes the executeWithIteration branch
Iterates(params) == AsBool(params.continueToIterate).v

\* p.Execute(params), with the probe's answer and the resolver's answers;
\* a second passes before time.Now() is read
Execute(params, probe, resolver) ==
    \E r \in {performTraceroute(params, probe, resolver, clock + 1)} :
    LET n         == Len(r.parsed)
        base      == Len(hopObjs)
        objs      == hopObjs \o [i \in 1..n |-> r.parsed[i].rec]
        arrs      == Append(arrays, [i \in 1..n |-> base + i])
        resultMap == [host |-> r.host,
                      hops |-> [arr |-> Len(arrs), len |-> n],
                      timestamp |-> r.timestamp,
                      rawOutput |-> r.rawOutput]
        results   == StoreHistory(Results, resultMap)
        count     == IterationCount + 1
    IN  /\ hist.calls < MaxCalls
        /\ clock' = clock + 1
        /\ call' = [params |-> params, probed |-> r.probed, arg |-> r.arg,
                    fail   |-> r.probed /\ probe.fail,
                    stderr |-> IF r.probed THEN probe.stderr ELSE "",
                    lines  |-> [i \in 1..n |-> r.parsed[i].line]]
        /\ UNCHANGED StartTime
        /\ IF r.err # ""
           THEN /\ ret' = [kind |-> "err", err |-> r.err, val |-> NoValue]
                /\ hist' = Counted(hist, params, ret', <<>>)
                /\ UNCHANGED <<Results, IterationCount, arrays, hopObjs>>
           ELSE /\ arrays' = arrs
                /\ hopObjs' = objs
                /\ IF Iterates(params)
                   THEN /\ IterationCount' = count
                        /\ Results' = results
                        /\ ret' = [kind |-> "ok", err |-> "",
                                   val  |-> Annotate(resultMap, count,
                                                     clock + 1 - StartTime,
                                                     results, arrs, objs)]
                        /\ hist' = Counted(hist, params, ret',
                                           <<Deep(results[Len(results)], arrs, objs)>>)
                   ELSE /\ ret' = [kind |-> "ok", err |-> "", val |-> resultMap]
                        /\ hist' = Counted(hist, params, ret', <<>>)
                        /\ UNCHANGED <<Results, IterationCount>>

Call ==
    \E params \in ParamBags, probe \in ProbeAnswers :
        Execute(params, probe, NamedResolver)

\* The caller keeps the map Execute returned and may write to it.

\* resultMap[k] = v, for an auxiliary or a canonical top-level key
CallerSetsField ==
    /\ ret.kind = "ok"
    /\ hist.muts < MaxMutations
    /\ \E k \in {"iterationCount", "host"} :
         ret' = [ret EXCEPT !.val =
                    (IF k = "host" THEN [host |-> "evil"]
                     ELSE [iterationCount |-> 0]) @@ @]
    /\ hist' = [hist EXCEPT !.muts = @ + 1, !.op = "mutate"]
    /\ UNCHANGED <<Results, IterationCount, StartTime, clock, arrays, hopObjs, call>>

\* resultMap["hops"] = hops[:0]
CallerReslicesHops ==
    /\ ret.kind = "ok"
    /\ hist.muts < MaxMutations
    /\ ret.val.hops.len > 0
    /\ ret' = [ret EXCEPT !.val.hops.len = 0]
    /\ hist' = [hist EXCEPT !.muts = @ + 1, !.op = "mutate"]
    /\ UNCHANGED <<Results, IterationCount, StartTime, clock, arrays, hopObjs, call>>

\* resultMap["hops"][i]["host"] = v: a write into a hop map
CallerSetsHopField ==
    /\ ret.kind = "ok"
    /\ hist.muts < MaxMutations
    /\ \E i \in 1..ret.val.hops.len :
         hopObjs' = [hopObjs EXCEPT ![arrays[ret.val.hops.arr][i]].host = <<"z">>]
    /\ hist' = [hist EXCEPT !.muts = @ + 1, !.op = "mutate"]
    /\ UNCHANGED <<Results, IterationCount, StartTime, clock, arrays, ret, call>>

Next ==
    \/ Call
    \/ CallerSetsField
    \/ CallerReslicesHops
    \/ CallerSetsHopField

Spec == Init /\ [][Next]_vars

\* One call on a fresh instance, over every parameter bag and probe answer
ParamCall ==
    /\ hist.calls = 0
    /\ \E params \in AllParamBags, probe \in AllProbeAnswers, resolver \in Resolvers :
         Execute(params, probe, resolver)

ParamSpec == Init /\ [][ParamCall]_vars

\* the lines of the probe outputs of ParseSpec
ParseFirsts == {tOne, tTwo, tZero, tNeg, tWord}
ParseTails ==
    { <<>>,
      <<Star, Star, Star>>,
      <<tAddr, tRtt, tMs>>,
      <<tAddr, tRttMs>>,
      <<tAddr, tRttMs, tMs>>,
      <<tAddr, tMs, tMs>> }
ParseLines ==
    {<<>>} \cup { Render(<<f>> \o t) : f \in ParseFirsts, t \in ParseTails }
ParseHeaders == {lineHdr, lineHop}
ParseBodies == UNION { [1..n -> ParseLines] : n \in 0..MaxLines }
ParseOutputs == { TextOf(<<h>> \o b) : h \in ParseHeaders, b \in ParseBodies }

\* One single-shot call on a fresh instance, over the probe outputs
ParseCall ==
    /\ hist.calls = 0
    /\ \E out \in ParseOutputs, resolver \in Resolvers :
         Execute([host |-> StringV("h1"), maxHops |-> Absent,
                  continueToIterate |-> Absent],
                 [fail |-> FALSE, stderr |-> "", stdout |-> out], resolver)

ParseSpec == Init /\ [][ParseCall]_vars

-----------------------------------------------------------------------------
(* The claims *)

\* the hop maps of the returned result, and the lines of its raw output
RetHops == HopsOf(ret.val.hops, arrays, hopObjs)
RetLines == Split(ret.val.rawOutput, NewLine)
Returned == hist.op = "exec" /\ ret.kind = "ok"

\* C1: IterationCount and the length of Results are both the number of
\* iteration-mode calls that returned a result; a call that returns an
\* error is not counted and not recorded.
C1_CountAndHistoryMatchCalls ==
    /\ IterationCount = hist.iterOk
    /\ Len(Results) = hist.iterOk

\* two iteration-mode results, then a call that failed
C1_Witness ==
    /\ hist.iterOk = 2
    /\ hist.calls = 3
    /\ ret.kind = "err"
    /\ Len(Results) = 2

\* C2: whenever the probe reports failure, the run returns an error and no
\* result, with or without diagnostic text, so no hops are parsed and
\* nothing is stored.
C2_ProbeFailureFailsRun ==
    (hist.op = "exec" /\ call.probed /\ call.fail) =>
        /\ ret.kind = "err"
        /\ ret.val = NoValue
        /\ Results = <<>>

\* C3: a history entry, followed through its hops, stays what it was when
\* captured, whatever the caller later writes through the returned result.
C3_HistoryEntriesFrozen ==
    \A i \in 1..Len(Results) :
        i <= Len(hist.captured) =>
            Deep(Results[i], arrays, hopObjs) = hist.captured[i]

\* C4: for an empty or missing host, in either mode, the call returns an
\* error and no result, and the probe is not invoked.
C4_EmptyHostNeverProbes ==
    (hist.op = "exec" /\ AsString(call.params.host).v = "") =>
        /\ ret.kind = "err"
        /\ ret.val = NoValue
        /\ ~call.probed

\* an iteration-mode call without a host parameter
C4_Witness ==
    /\ hist.op = "exec"
    /\ call.params.host = Absent
    /\ call.params.continueToIterate = BoolV(TRUE)
    /\ ret.kind = "err"
    /\ ~call.probed

\* C5: the hop ceiling passed to the probe is 30 when maxHops is absent or
\* not a valid positive number, else the supplied positive value; it is
\* never below 1.
C5_HopCeiling ==
    (hist.op = "exec" /\ call.probed) =>
        LET a == AsFloat(call.params.maxHops) IN
        /\ call.arg >= 1
        /\ IF a.ok /\ a.v > 0
           THEN call.arg * 10 <= a.v /\ a.v < (call.arg + 1) * 10
           ELSE call.arg = DefaultMaxHops

\* the hop records that line i (0-based) of the raw output yielded
RecordsOfLine(i) == { k \in 1..Len(call.lines) : call.lines[k] = i }

\* fields parts name a hop that answered with a round-trip time that parses
AnsweringLine(parts, minFields) ==
    /\ Len(parts) >= minFields
    /\ Atoi(parts[1]).ok /\ Atoi(parts[1]).val >= 1
    /\ parts[2] # Star
    /\ ParseFloat(TrimSuffix(parts[3], <<"m", "s">>)).ok

\* line i, with fields parts, yielded a record for its address, reachable,
\* with the parsed time; its name is the resolved name or the address
AnsweredAt(hops, i, parts) ==
    \E k \in RecordsOfLine(i) :
        /\ hops[k].host = parts[2]
        /\ hops[k].status = "OK"
        /\ hops[k].rtt = ParseFloat(TrimSuffix(parts[3], <<"m", "s">>)).val
        /\ hops[k].name \in {parts[2], <<"g", "w">>}

\* C6 as claimed: every line after the header with a hop number, an address
\* other than "*" and a round-trip token that parses once "ms" is stripped
\* yields a reachable record with that address and time.
C6_AnsweringLineIsReachable ==
    Returned =>
        \A lines \in {RetLines}, hops \in {RetHops} :
            \A i \in 1..(Len(lines) - 1) :
                \A parts \in {Fields(lines[i + 1])} :
                    AnsweringLine(parts, 3) => AnsweredAt(hops, i, parts)

\* C6 amended: the same, for the lines that also have at least 4 fields.
C6_AnsweringLineOfFourFields ==
    Returned =>
        \A lines \in {RetLines}, hops \in {RetHops} :
            \A i \in 1..(Len(lines) - 1) :
                \A parts \in {Fields(lines[i + 1])} :
                    AnsweringLine(parts, 4) => AnsweredAt(hops, i, parts)

\* a line "1  a  7ms  ms" read as a hop at 7 ms whose lookup failed
C6_Witness ==
    /\ Returned
    /\ \E i \in 1..(Len(RetLines) - 1) :
         /\ AnsweringLine(Fields(RetLines[i + 1]), 4)
         /\ Fields(RetLines[i + 1])[3] = tRttMs
         /\ \E k \in RecordsOfLine(i) :
              RetHops[k].rtt = 7000 /\ RetHops[k].name = tAddr

\* C7: a line with a hop number whose second token is "*" yields host "*",
\* name "*", rtt 0 and status NO RESPONSE; and every record has status OK
\* exactly when its host is not "*".
C7_TimeoutRecords ==
    Returned =>
        \A lines \in {RetLines}, hops \in {RetHops} :
            /\ \A i \in 1..(Len(lines) - 1) :
                 \A parts \in {Fields(lines[i + 1])} :
                     (Len(parts) >= 2 /\ Atoi(parts[1]).ok /\ parts[2] = Star) =>
                         \E k \in RecordsOfLine(i) :
                             /\ hops[k].host = Star
                             /\ hops[k].name = Star
                             /\ hops[k].rtt = 0
                             /\ hops[k].status = "NO RESPONSE"
            /\ \A k \in 1..Len(hops) :
                 (hops[k].status = "OK") <=> (hops[k].host # Star)

\* a timeout line and an answering line in one output
C7_Witness ==
    /\ Returned
    /\ \E j, k \in 1..Len(RetHops) :
         /\ RetHops[j].status = "NO RESPONSE"
         /\ Fields(RetLines[call.lines[j] + 1])[2] = Star
         /\ RetHops[k].status = "OK"

\* C8: an iteration-mode result has a history field exactly when at least 2
\* runs are stored; it then has one entry per stored run, in order, numbered
\* 1..N, with that run's host, timestamp, hop count and last hop address
\* (empty when the run has no hops).
C8_HistoryField ==
    (Returned /\ Iterates(call.params)) =>
        /\ ("history" \in DOMAIN ret.val) <=> (Len(Results) >= 2)
        /\ "history" \in DOMAIN ret.val =>
             /\ Len(ret.val.history) = Len(Results)
             /\ \A i \in 1..Len(Results) :
                  LET e    == ret.val.history[i]
                      hops == HopsOf(Results[i].hops, arrays, hopObjs)
                  IN  /\ e.iteration = i
                      /\ e.host = Results[i].host
                      /\ e.timestamp = Results[i].timestamp
                      /\ e.hopCount = Len(hops)
                      /\ e.lastHop = IF Len(hops) = 0 THEN <<>>
                                     ELSE hops[Len(hops)].host

\* a third iteration-mode result: three entries, of runs that differ
C8_Witness ==
    /\ Returned /\ Iterates(call.params)
    /\ "history" \in DOMAIN ret.val
    /\ Len(ret.val.history) = 3
    /\ ret.val.history[1].host # ret.val.history[2].host
    /\ ret.val.history[2].lastHop # ret.val.history[3].lastHop

\* C9: every hop record has a hop number of at least 1.
C9_HopNumbersPositive ==
    Returned => \A k \in 1..Len(RetHops) : RetHops[k].hop >= 1

\* the lines after the header that are not empty and carry a hop number
\* and something after it
KeptLines(lines) ==
    { i \in 1..(Len(lines) - 1) :
        /\ lines[i + 1] # <<>>
        /\ \E parts \in {Fields(lines[i + 1])} :
             Len(parts) >= 2 /\ Atoi(parts[1]).ok }

\* C10: the hops are the records of the kept lines after the header, one
\* per line, in line order: the header yields none, nothing is reordered,
\* and lines with equal hop numbers each yield a record.
C10_HopsFollowLines ==
    Returned =>
        \A lines \in {RetLines}, hops \in {RetHops} :
            \A kept \in {KeptLines(lines)} :
                /\ Len(hops) = Len(call.lines)
                /\ \A k \in 1..Len(call.lines) : call.lines[k] \in kept
                /\ \A i \in kept : Cardinality(RecordsOfLine(i)) = 1
                /\ \A j, k \in 1..Len(call.lines) :
                     j < k => call.lines[j] < call.lines[k]
                /\ \A k \in 1..Len(hops) :
                     hops[k].hop = Atoi(Fields(lines[call.lines[k] + 1])[1]).val

\* two lines with the same hop number, and a header that reads as a hop
C10_Witness ==
    /\ Returned
    /\ Len(RetHops) = 2
    /\ RetHops[1].hop = RetHops[2].hop
    /\ Len(Fields(RetLines[1])) >= 4 /\ Atoi(Fields(RetLines[1])[1]).ok

====
